---- MODULE Spec2Model ----
(***************************************************************************)
(* RealtimeModel of src/src/model_rt.py: the streaming engine              *)
(* (get_current_prediction, reset), its constructor, and the batch         *)
(* classifier classificate_recordings.                                     *)
(*                                                                         *)
(* The classifier (model.predict) and the feature extraction               *)
(* (utils_preprocess.energy_arrays / signal_interval) are external: the    *)
(* labels the classifier returns are an input of each call, drawn from     *)
(* every sequence of class ids of the right length.  A sample is           *)
(* identified by its position in the stream since construction or reset,   *)
(* so any two samples of the stream are distinguishable in the buffer.     *)
(***************************************************************************)
EXTENDS Integers, Sequences, FiniteSets, TLC

VARIABLES
    self,               \* the engine: its fields, or None before construction
    op,                 \* the last operation
    ret,                \* what it returned or raised
    ncalls,             \* get_current_prediction calls since construction or reset
    predict_called,     \* whether the last operation asked the classifier
    clean_run,          \* ready calls in a row whose latest raw label was Clean
    prediction_before,  \* self.prediction before the last operation
    ctor,               \* the arguments of the construction
    fresh,              \* an engine built from ctor at the last construction or
                        \* reset and fed the same blocks since
    batch_y,            \* the labels of the recordings of the last batch call
    window,             \* the samples the last call handed to signal_interval
    block               \* the block X of the last get_current_prediction call

vars == <<self, op, ret, ncalls, predict_called, clean_run, prediction_before,
          ctor, fresh, batch_y, window, block>>

\* ------------------------------------------------------------------ bounds
\* nfft of the engines built (the default of the source is 1024)
NFFT == 2
\* offsets of the engines built are 1..MaxOffset (the default of the source is 4)
MaxOffset == 4
\* n_shifts offered to the constructor are 0..MaxShifts
MaxShifts == 2
\* get_current_prediction calls between two constructions or resets
MaxCalls == 7
\* longest label sequence of one recording, and most recordings of one batch
MaxLen == 3
MaxRecordings == 2

\* --------------------------------------------------------- configuration
None == [none |-> TRUE]
\* the content of a slot that was never written: no sample and no class id
Uninit == -1

classes ==
    ("Clean" :> 0) @@ ("Narrowband Start" :> 1) @@ ("Narrowband Stop" :> 2)
    @@ ("Wideband Start" :> 3) @@ ("Wideband Stop" :> 4)

class_map ==
    (0 :> "Clean") @@ (1 :> "Narrowband") @@ (2 :> "Clean")
    @@ (3 :> "Wideband") @@ (4 :> "Clean")

\* the class ids the classifier can answer
Labels == {classes[c] : c \in DOMAIN classes}

N_PARTITIONS == 32

Min(a, b) == IF a <= b THEN a ELSE b
Max(a, b) == IF a >= b THEN a ELSE b

\* Python s[a:b] and s[a:] for 0 <= a, 0 <= b (0-based, upper end clamped)
PySlice(s, a, b) ==
    IF a >= Min(b, Len(s)) THEN <<>> ELSE SubSeq(s, a + 1, Min(b, Len(s)))
PyFrom(s, a) == PySlice(s, a, Len(s))
\* Python s[-n:] for n >= 1: the last n elements, all of s when n > len(s)
PyLast(s, n) == PyFrom(s, Max(Len(s) - n, 0))

\* np.empty(n): n slots whose content is unspecified until written
Empty(n) == [i \in 1..n |-> Uninit]

\* -------------------------------------------------------------- __init__
\* a guard that lets every positive n_shifts through
AssertShiftsMut(n_shifts) == n_shifts >= 1
\* assert n_shifts==1 (line 26)
AssertShifts(n_shifts) == n_shifts = 1

\* lines 27-46: the fields of a constructed engine
NewEngine(model, nfft, offset, n_shifts, n_partitions) ==
    LET num_intervals == IF n_shifts > 1 THEN offset + 2 ELSE offset + 1
    IN  [ n_confirmations |-> Max(1, offset - 2),
          model |-> model,
          nfft |-> nfft,
          n_partitions |-> n_partitions,
          num_intervals |-> num_intervals,
          buffer |-> Empty(nfft * num_intervals),
          buffer_index |-> 0,
          ready |-> FALSE,
          offset |-> offset,
          n_shifts |-> n_shifts,
          predictions |-> Empty(nfft),
          prediction |-> classes["Clean"],
          intervals_since_last_prediction |-> 0,
          intervals_since_current_prediction |-> 0,
          possible_prediction |-> classes["Clean"] ]

\* a reset that hands num_intervals to __init__ as the offset
ResetArgsMut(s) ==
    [model |-> s.model, nfft |-> s.nfft, offset |-> s.num_intervals,
     n_shifts |-> s.n_shifts, n_partitions |-> s.n_partitions]
\* the arguments reset() hands to __init__ (line 53)
ResetArgs(s) ==
    [model |-> s.model, nfft |-> s.nfft, offset |-> s.offset,
     n_shifts |-> s.n_shifts, n_partitions |-> s.n_partitions]

\* ------------------------------------------------ get_current_prediction
\* a readiness that is recomputed on every call instead of latched
ReadyAfterMut(buffer_index, num_intervals, ready) ==
    buffer_index = num_intervals - 1
\* lines 67-68 and 74: the value of self.ready tested at line 74
ReadyAfter(buffer_index, num_intervals, ready) ==
    ready \/ buffer_index = num_intervals - 1

\* a write that stops one sample short: the last sample of the slot is not
\* written
WriteBlockMut(buffer, start, end, X) ==
    PySlice(buffer, 0, start) \o PySlice(X, 0, Len(X) - 1)
        \o PyFrom(buffer, end - 1)
\* line 72: self.buffer[start:end] = X, for a block of end-start samples:
\* the samples before the slot, the block, the samples after the slot
WriteBlock(buffer, start, end, X) ==
    PySlice(buffer, 0, start) \o X \o PyFrom(buffer, end)

\* lines 79-82: the samples handed to signal_interval on a ready call, for
\* shift 0 (what the feature extraction and the classifier make of them is
\* the input y of the call)
Window(buffer, end) ==
    LET at == end % Len(buffer)
    IN  PyFrom(buffer, at) \o PySlice(buffer, 0, 1 + at)

\* line 100: np.all(predictions[-n_confirmations:, 0] == predictions[-1, 0])
ConfirmedRun(predictions, n_confirmations) ==
    LET tail == PyLast(predictions, n_confirmations)
    IN  \A i \in 1..Len(tail) : tail[i] = predictions[Len(predictions)]

\* a decision update that confirms Clean like any other label
UpdateDecisionDemoteMut(s) ==
    LET prediction == s.predictions[Len(s.predictions)]
        changed == s.possible_prediction # prediction
        isc == IF changed THEN 0 ELSE s.intervals_since_current_prediction
        s1 == [s EXCEPT !.intervals_since_current_prediction = isc,
                        !.possible_prediction = prediction]
    IN  IF ConfirmedRun(s.predictions, s.n_confirmations)
        THEN [s1 EXCEPT !.prediction = prediction,
                        !.intervals_since_last_prediction = isc]
        ELSE s1
\* a decision update that confirms every non-Clean latest label, whatever
\* the labels before it
UpdateDecisionAnyMut(s) ==
    LET prediction == s.predictions[Len(s.predictions)]
    IN  IF prediction # classes["Clean"]
        THEN LET changed == s.possible_prediction # prediction
                 isc == IF changed THEN 0
                        ELSE s.intervals_since_current_prediction
             IN  [s EXCEPT !.intervals_since_current_prediction = isc,
                           !.possible_prediction = prediction,
                           !.prediction = prediction,
                           !.intervals_since_last_prediction = isc]
        ELSE s
\* a decision update that confirms without touching the hold duration
UpdateDecisionNoDurMut(s) ==
    LET prediction == s.predictions[Len(s.predictions)]
    IN  IF prediction # classes["Clean"]
        THEN LET changed == s.possible_prediction # prediction
                 isc == IF changed THEN 0
                        ELSE s.intervals_since_current_prediction
                 s1 == [s EXCEPT !.intervals_since_current_prediction = isc,
                                 !.possible_prediction = prediction]
             IN  IF ConfirmedRun(s.predictions, s.n_confirmations)
                 THEN [s1 EXCEPT !.prediction = prediction]
                 ELSE s1
        ELSE s
\* a decision update that restarts the hold duration at every confirmation
UpdateDecisionZeroDurMut(s) ==
    LET prediction == s.predictions[Len(s.predictions)]
    IN  IF prediction # classes["Clean"]
        THEN LET changed == s.possible_prediction # prediction
                 isc == IF changed THEN 0
                        ELSE s.intervals_since_current_prediction
                 s1 == [s EXCEPT !.intervals_since_current_prediction = isc,
                                 !.possible_prediction = prediction]
             IN  IF ConfirmedRun(s.predictions, s.n_confirmations)
                 THEN [s1 EXCEPT !.prediction = prediction,
                                 !.intervals_since_last_prediction = 0]
                 ELSE s1
        ELSE s
\* a decision update in which a Clean latest label becomes the candidate
UpdateDecisionCleanCandidateMut(s) ==
    LET prediction == s.predictions[Len(s.predictions)]
        changed == s.possible_prediction # prediction
        isc == IF changed THEN 0 ELSE s.intervals_since_current_prediction
        s1 == [s EXCEPT !.intervals_since_current_prediction = isc,
                        !.possible_prediction = prediction]
    IN  IF prediction # classes["Clean"]
           /\ ConfirmedRun(s.predictions, s.n_confirmations)
        THEN [s1 EXCEPT !.prediction = prediction,
                        !.intervals_since_last_prediction = isc]
        ELSE s1
\* a decision update that does not restart the candidate's age when the
\* candidate changes
UpdateDecisionKeepAgeMut(s) ==
    LET prediction == s.predictions[Len(s.predictions)]
    IN  IF prediction # classes["Clean"]
        THEN LET s1 == [s EXCEPT !.possible_prediction = prediction]
             IN  IF ConfirmedRun(s.predictions, s.n_confirmations)
                 THEN [s1 EXCEPT !.prediction = prediction,
                                 !.intervals_since_last_prediction =
                                     s.intervals_since_current_prediction]
                 ELSE s1
        ELSE s
\* lines 92-102: the decision update of a ready call, on the engine whose
\* predictions and counters are already those of this call
UpdateDecision(s) ==
    LET prediction == s.predictions[Len(s.predictions)]
    IN  IF prediction # classes["Clean"]
        THEN LET changed == s.possible_prediction # prediction
                 isc == IF changed THEN 0
                        ELSE s.intervals_since_current_prediction
                 s1 == [s EXCEPT !.intervals_since_current_prediction = isc,
                                 !.possible_prediction = prediction]
             IN  IF ConfirmedRun(s.predictions, s.n_confirmations)
                 THEN [s1 EXCEPT !.prediction = prediction,
                                 !.intervals_since_last_prediction = isc]
                 ELSE s1
        ELSE s

\* lines 64-106: the engine after the call, given the block X and the labels
\* y that model.predict answers if it is asked
EngineAfterCall(s, X, y) ==
    LET ready == ReadyAfter(s.buffer_index, s.num_intervals, s.ready)
        start == s.buffer_index * s.nfft
        end == (s.buffer_index + 1) * s.nfft
        s1 == [s EXCEPT
                 !.intervals_since_last_prediction = @ + 1,
                 !.intervals_since_current_prediction = @ + 1,
                 !.ready = ready,
                 !.buffer = WriteBlock(s.buffer, start, end, X)]
        s2 == IF ready
              THEN UpdateDecision([s1 EXCEPT !.predictions = y])
              ELSE s1
    IN  [s2 EXCEPT !.buffer_index = (s.buffer_index + 1) % s.num_intervals]

\* line 72 for a block of any length: numpy takes a block of nfft samples,
\* repeats a block of one sample over the slot, and raises ValueError for
\* any other length
Fits(X, nfft) == Len(X) = nfft \/ Len(X) = 1
Broadcast(X, nfft) == IF Len(X) = nfft THEN X ELSE [i \in 1..nfft |-> X[1]]

\* lines 64-72 of a call whose block does not fit: the counters and the
\* readiness are updated before line 72 raises
EngineAfterValueError(s) ==
    [s EXCEPT
       !.intervals_since_last_prediction = @ + 1,
       !.intervals_since_current_prediction = @ + 1,
       !.ready = ReadyAfter(s.buffer_index, s.num_intervals, s.ready)]

\* line 106: the pair returned
Returned(s) ==
    [kind |-> "return",
     val |-> <<class_map[s.prediction],
               s.intervals_since_last_prediction * s.nfft>>]

\* the k-th block of the stream (k = 0, 1, ...): nfft samples
Block(k, nfft) == [i \in 1..nfft |-> k * nfft + i]
\* a block of n samples offered in its place: the first n samples of the
\* stream from the start of the k-th block on
BlockOfLen(k, nfft, n) == [i \in 1..n |-> k * nfft + i]

\* every answer of model.predict for n feature vectors
LabelSeqs(n) == [1..n -> Labels]

\* ------------------------------------------------ classificate_recordings
\* Python values of more than one type: None or an integer, and the "Class"
\* entry, which the source sets to a class id or to a category name
PyNone == <<>>
PyInt(n) == <<n>>
ClassId(n) == <<"int", n>>
ClassName(c) == <<"str", c>>

\* line 124: key = y != classes["Clean"]
NonCleanMask(y) == [p \in 1..Len(y) |-> y[p] # classes["Clean"]]
\* lines 150-151: y == label
EqualMask(y, label) == [p \in 1..Len(y) |-> y[p] = label]

\* lines 130 and 154-156: mask[:-1] & (y[j:] == y[:-j])
ShiftAnd(mask, y, j) ==
    [p \in 1..Max(Len(mask) - 1, 0) |-> mask[p] /\ y[p + j] = y[p]]

\* lines 128-130 and 152-156: for j in range(1, shift+1)
RECURSIVE MaskLoop(_, _, _, _)
MaskLoop(mask, y, j, shift) ==
    IF j > shift THEN mask ELSE MaskLoop(ShiftAnd(mask, y, j), y, j + 1, shift)

\* np.any(mask), and mask.argmax(): the 0-based index of the first True, 0
\* when there is none
NpAny(mask) == \E p \in 1..Len(mask) : mask[p]
ArgMax(mask) ==
    IF NpAny(mask)
    THEN (CHOOSE p \in 1..Len(mask) :
             mask[p] /\ \A q \in 1..(p - 1) : ~mask[q]) - 1
    ELSE 0

\* y[key] for a boolean key of the length of y
RECURSIVE BoolIndex(_, _)
BoolIndex(y, key) ==
    IF Len(y) = 0 THEN <<>>
    ELSE LET rest == BoolIndex(Tail(y), Tail(key))
         IN  IF Head(key) THEN <<Head(y)>> \o rest ELSE rest

\* np.unique(sel, return_index=True): the distinct values, and for a value
\* the index of its first occurrence in sel
Unique(sel) == {sel[p] : p \in 1..Len(sel)}
FirstIndex(sel, v) ==
    CHOOSE p \in 1..Len(sel) : sel[p] = v /\ \A q \in 1..(p - 1) : sel[q] # v
\* unique[index.argmin()] and unique[index.argmax()] (lines 136, 139)
FirstAnomaly(sel) ==
    CHOOSE v \in Unique(sel) :
        \A w \in Unique(sel) : FirstIndex(sel, v) <= FirstIndex(sel, w)
LastAnomaly(sel) ==
    CHOOSE v \in Unique(sel) :
        \A w \in Unique(sel) : FirstIndex(sel, v) >= FirstIndex(sel, w)

\* prediction[i] = item (lines 162, 165) on the local variable `prediction`,
\* which line 115 binds to a list and lines 136 and 145 rebind to a class id
\* or to a category name: only a list takes an item
SetItem(prediction, i, item) ==
    IF prediction.type = "list"
    THEN [kind |-> "ok",
          local |-> [type |-> "list",
                     val |-> [prediction.val EXCEPT ![i] = <<item>>]]]
    ELSE [kind |-> "raise", val |-> "TypeError"]

\* lines 117-165: one iteration of the loop, for the labels y that
\* model.predict answers for recording i
Iteration(s, prediction, i, y) ==
    LET shift == s.n_confirmations - 1
        key == MaskLoop(NonCleanMask(y), y, 1, shift)
    IN  IF NpAny(key)
        THEN IF Len(key) # Len(y)
             THEN \* line 133: a boolean index shorter than y
                  [kind |-> "raise", val |-> "IndexError"]
             ELSE LET sel == BoolIndex(y, key)
                      first == FirstAnomaly(sel)
                      end_prediction == LastAnomaly(sel)
                      unclear ==
                          \/ class_map[first] # class_map[end_prediction]
                          \/ Cardinality(Unique(sel)) # 2
                      local ==
                          IF unclear
                          THEN [type |-> "str",
                                val |-> class_map[classes["Clean"]]]
                          ELSE [type |-> "int", val |-> first]
                      start ==
                          IF unclear THEN PyNone
                          ELSE PyInt(ArgMax(
                                 MaskLoop(EqualMask(y, first), y, 1, shift)))
                      end ==
                          IF unclear THEN PyNone
                          ELSE PyInt(ArgMax(
                                 MaskLoop(EqualMask(y, end_prediction),
                                          y, 1, shift)))
                      class == IF unclear THEN ClassName(local.val)
                               ELSE ClassId(local.val)
                  IN  SetItem(local, i,
                              [Class |-> class, Start |-> start, Stop |-> end])
        ELSE SetItem(prediction, i,
                     [Class |-> ClassId(classes["Clean"]),
                      Start |-> PyNone, Stop |-> PyNone])

\* lines 115-167: the loop over the recordings from index i on, and the
\* value returned or the exception raised
RECURSIVE Loop(_, _, _, _)
Loop(s, prediction, i, ys) ==
    IF i > Len(ys)
    THEN [kind |-> "return", val |-> prediction.val]
    ELSE LET r == Iteration(s, prediction, i, ys[i])
         IN  IF r.kind = "raise" THEN r ELSE Loop(s, r.local, i + 1, ys)

\* line 115: prediction = [None]*len(recordings)
ClassificateResult(s, ys) ==
    Loop(s, [type |-> "list", val |-> [i \in 1..Len(ys) |-> <<>>]], 1, ys)

\* a batch call whose `prediction` is the field of the engine
EngineAfterBatchMut(s) == [s EXCEPT !.prediction = classes["Clean"]]
\* the engine after classificate_recordings: the method assigns to no field
EngineAfterBatch(s) == s

\* label sequences of recordings: every one of at most MaxLen labels, and
\* the recordings of the documented scenario
RECURSIVE SeqsUpTo(_, _)
SeqsUpTo(S, n) ==
    IF n = 0 THEN {<<>>}
    ELSE SeqsUpTo(S, n - 1) \cup [1..n -> S]

ScenarioC == <<0, 0, 1, 1, 2, 2, 0>>
Corpus == {<<0, 0>>, <<0, 1, 2>>, <<0, 1, 1, 2, 2>>, <<1, 3>>, <<1, 2, 3>>, ScenarioC}
BatchInputs ==
    {<<y>> : y \in SeqsUpTo(Labels, MaxLen) \cup Corpus}
    \cup SeqsUpTo(Corpus, MaxRecordings)
StreamBatchInputs == SeqsUpTo(Corpus, 1)

\* ---------------------------------------------------------------- actions
NoReturn == [kind |-> "none"]

Init ==
    /\ self = None
    /\ op = "none"
    /\ ret = NoReturn
    /\ ncalls = 0
    /\ predict_called = FALSE
    /\ clean_run = 0
    /\ prediction_before = classes["Clean"]
    /\ ctor = None
    /\ fresh = None
    /\ batch_y = <<>>
    /\ window = <<>>
    /\ block = <<>>

\* RealtimeModel(model, nfft=nfft, offset=offset, n_shifts=n_shifts)
Construct(nfft, offset, n_shifts) ==
    /\ self = None
    /\ op' = "init"
    /\ ncalls' = 0
    /\ predict_called' = FALSE
    /\ clean_run' = 0
    /\ prediction_before' = classes["Clean"]
    /\ batch_y' = <<>>
    /\ window' = <<>>
    /\ block' = <<>>
    /\ IF AssertShifts(n_shifts)
       THEN /\ self' = NewEngine("clf", nfft, offset, n_shifts, N_PARTITIONS)
            /\ ctor' = [model |-> "clf", nfft |-> nfft, offset |-> offset,
                        n_shifts |-> n_shifts, n_partitions |-> N_PARTITIONS]
            /\ fresh' = self'
            /\ ret' = NoReturn
       ELSE /\ self' = self
            /\ ctor' = [n_shifts |-> n_shifts]
            /\ fresh' = fresh
            /\ ret' = [kind |-> "raise", val |-> "AssertionError"]

\* get_current_prediction(X), with y the answer of model.predict if it is
\* asked
GetCurrentPrediction(X, y) ==
    /\ self # None
    /\ ncalls < MaxCalls
    /\ IF Fits(X, self.nfft)
       THEN /\ self' = EngineAfterCall(self, Broadcast(X, self.nfft), y)
            /\ ret' = Returned(self')
            /\ predict_called' = self'.ready
            /\ clean_run' = IF self'.ready /\ y[Len(y)] = classes["Clean"]
                            THEN clean_run + 1 ELSE 0
            \* the same call on the engine constructed afresh
            /\ fresh' = IF fresh = self THEN self'
                        ELSE EngineAfterCall(fresh, Broadcast(X, self.nfft), y)
            /\ window' = IF self'.ready
                         THEN Window(self'.buffer,
                                     (self.buffer_index + 1) * self.nfft)
                         ELSE <<>>
       ELSE /\ self' = EngineAfterValueError(self)
            /\ ret' = [kind |-> "raise", val |-> "ValueError"]
            /\ predict_called' = FALSE
            /\ clean_run' = clean_run
            /\ fresh' = EngineAfterValueError(fresh)
            /\ window' = <<>>
    /\ op' = "get_current_prediction"
    /\ ncalls' = ncalls + 1
    /\ prediction_before' = self.prediction
    /\ batch_y' = <<>>
    /\ block' = X
    /\ UNCHANGED ctor

Reset ==
    /\ self # None
    /\ LET a == ResetArgs(self)
       IN  self' = NewEngine(a.model, a.nfft, a.offset, a.n_shifts, a.n_partitions)
    /\ op' = "reset"
    /\ ret' = NoReturn
    /\ ncalls' = 0
    /\ predict_called' = FALSE
    /\ clean_run' = 0
    /\ prediction_before' = self.prediction
    /\ fresh' = NewEngine(ctor.model, ctor.nfft, ctor.offset, ctor.n_shifts,
                          ctor.n_partitions)
    /\ batch_y' = <<>>
    /\ window' = <<>>
    /\ block' = <<>>
    /\ UNCHANGED ctor

ClassificateRecordings(ys) ==
    /\ self # None
    /\ self' = EngineAfterBatch(self)
    /\ ret' = ClassificateResult(self, ys)
    /\ batch_y' = ys
    /\ op' = "classificate_recordings"
    /\ predict_called' = (Len(ys) > 0)
    /\ prediction_before' = self.prediction
    /\ window' = <<>>
    /\ block' = <<>>
    /\ UNCHANGED <<ncalls, clean_run, ctor, fresh>>

\* the streaming engine: construction, blocks with every answer of the
\* classifier, resets
Next ==
    \/ \E offset \in 1..MaxOffset, n_shifts \in 0..MaxShifts :
          Construct(NFFT, offset, n_shifts)
    \/ \E y \in LabelSeqs(NFFT) :
          GetCurrentPrediction(Block(ncalls, NFFT), y)
    \/ Reset

Spec == Init /\ [][Next]_vars

\* the batch classifier alone, on every batch of BatchInputs
NextBatch ==
    \/ \E offset \in 1..MaxOffset, n_shifts \in 0..MaxShifts :
          Construct(NFFT, offset, n_shifts)
    \/ \E ys \in BatchInputs : ClassificateRecordings(ys)

SpecBatch == Init /\ [][NextBatch]_vars

\* batch calls between the calls of the streaming engine; the classifier
\* answers the same label for every feature vector of a block
NextMixed ==
    \/ \E offset \in 1..MaxOffset, n_shifts \in 0..MaxShifts :
          Construct(NFFT, offset, n_shifts)
    \/ \E l \in Labels :
          GetCurrentPrediction(Block(ncalls, NFFT), [i \in 1..NFFT |-> l])
    \/ Reset
    \/ \E ys \in StreamBatchInputs : ClassificateRecordings(ys)

SpecMixed == Init /\ [][NextMixed]_vars

\* the streaming engine fed blocks of 0, 1, nfft and nfft+1 samples; the
\* classifier answers the same label for every feature vector of a block
\* and is not asked when the block does not fit
NextBlocks ==
    \/ \E offset \in 1..MaxOffset, n_shifts \in 0..MaxShifts :
          Construct(NFFT, offset, n_shifts)
    \/ \E n \in {1, NFFT}, l \in Labels :
          GetCurrentPrediction(BlockOfLen(ncalls, NFFT, n),
                               [i \in 1..NFFT |-> l])
    \/ \E n \in {0, NFFT + 1} :
          GetCurrentPrediction(BlockOfLen(ncalls, NFFT, n), <<>>)
    \/ Reset

SpecBlocks == Init /\ [][NextBlocks]_vars

\* ----------------------------------------------------------------- claims
Clean == classes["Clean"]
IsCall == self # None /\ op = "get_current_prediction"
\* the latest raw label of the last ready call
Latest == self.predictions[Len(self.predictions)]
\* the raw labels the confirmation rule reads: the last n_confirmations of
\* them, all of them when there are fewer
TailAllEqualLatest ==
    \A k \in 0..(Min(self.n_confirmations, Len(self.predictions)) - 1) :
        self.predictions[Len(self.predictions) - k] = Latest
\* the confirmed class changed value in the last call
ConfirmedChanged == IsCall /\ self.prediction # prediction_before

\* C1: each of the first num_intervals-1 calls after construction or reset
\* returns the category of the Clean class without asking the classifier;
\* the num_intervals-th call and every later call asks the classifier.
C1_ReadinessGating ==
    IsCall =>
        /\ ncalls < self.num_intervals =>
              /\ ~predict_called
              /\ ret.val[1] = class_map[Clean]
        /\ ncalls >= self.num_intervals => predict_called

\* the num_intervals-th call of an engine of 5 intervals, after 4 gated calls
C1_Witness ==
    /\ IsCall
    /\ self.num_intervals = 5
    /\ ncalls = self.num_intervals
    /\ predict_called
    /\ ret.val[1] = "Narrowband"

\* C2: the confirmed class changes value only on a ready call whose latest
\* raw label is not Clean and whose last n_confirmations raw labels all equal
\* it, and the new value is that label.
C2_ConfirmationOnly ==
    ConfirmedChanged =>
        /\ predict_called
        /\ Latest # Clean
        /\ TailAllEqualLatest
        /\ self.prediction = Latest

\* a confirmed class replaced by another one under n_confirmations = 2
C2_Witness ==
    /\ ConfirmedChanged
    /\ self.n_confirmations = 2
    /\ prediction_before # Clean
    /\ self.predictions = <<self.prediction, self.prediction>>

\* C3 as stated: on every call at which the confirmed class changes to a new
\* value, the returned hold duration is at most nfft.
C3_DurationAtMostOneWindow ==
    ConfirmedChanged => ret.val[2] <= self.nfft

\* C3 as amended: on such a call the returned hold duration is the age of
\* the candidate class, intervals_since_current_prediction * nfft; it is at
\* most nfft when n_confirmations = 1.
C3_DurationIsCandidateAge ==
    ConfirmedChanged =>
        /\ ret.val[2] = self.intervals_since_current_prediction * self.nfft
        /\ self.n_confirmations = 1 => ret.val[2] <= self.nfft

\* a class confirmed two calls after it became the candidate
C3_Witness ==
    /\ ConfirmedChanged
    /\ self.n_confirmations = 2
    /\ self.intervals_since_current_prediction = 2
    /\ ret.val[2] = 2 * self.nfft

\* C4 as stated: once Clean has been the latest raw label on n_confirmations
\* consecutive ready calls, the confirmed class is the Clean class again.
C4_DemotedByCleanRun ==
    (IsCall /\ clean_run >= self.n_confirmations) => self.prediction = Clean

\* C4 as amended: a call whose latest raw label is Clean leaves the confirmed
\* class as it was, however long the run of such calls, and no call takes a
\* non-Clean confirmed class back to the Clean class.
C4_NeverDemotedByCalls ==
    IsCall =>
        /\ clean_run >= 1 => self.prediction = prediction_before
        /\ prediction_before # Clean => self.prediction # Clean

\* a non-Clean confirmed class after n_confirmations = 2 Clean readings
C4_Witness ==
    /\ IsCall
    /\ self.n_confirmations = 2
    /\ clean_run >= self.n_confirmations
    /\ self.predictions = <<Clean, Clean>>
    /\ self.prediction # Clean

\* C5: reset() leaves the engine as the constructor left it for the same
\* arguments (buffer_index 0, not ready, confirmed and candidate class Clean,
\* both counters 0), and from then on the engine and its returned pairs are
\* those of a freshly constructed engine fed the same blocks.
C5_ResetEquivalence ==
    self # None =>
        /\ op = "reset" =>
              /\ self.buffer_index = 0
              /\ ~self.ready
              /\ self.prediction = Clean
              /\ self.possible_prediction = Clean
              /\ self.intervals_since_last_prediction = 0
              /\ self.intervals_since_current_prediction = 0
              /\ self.nfft = ctor.nfft
              /\ self.offset = ctor.offset
              /\ self.n_shifts = ctor.n_shifts
              /\ self.n_partitions = ctor.n_partitions
              /\ self.model = ctor.model
              /\ self.num_intervals = ctor.offset + 1
              /\ self.n_confirmations = Max(1, ctor.offset - 2)
              /\ Len(self.buffer) = ctor.nfft * (ctor.offset + 1)
        /\ self = fresh
        /\ IsCall => ret = Returned(fresh)

\* the reset of an engine of offset 4 that had confirmed a class
C5_Witness ==
    /\ self # None
    /\ op = "reset"
    /\ prediction_before # Clean
    /\ self.offset = 4

\* position p (1-based) of y heads a run of n equal labels that are not Clean
ConfirmedAt(y, p, n) ==
    /\ p + n - 1 <= Len(y)
    /\ y[p] # Clean
    /\ \A k \in 1..(n - 1) : y[p + k] = y[p]
\* the distinct labels of the confirmed runs of y
ConfirmedLabels(y, n) ==
    {y[p] : p \in {q \in 1..Len(y) : ConfirmedAt(y, q, n)}}
\* the 0-based index of the first confirmed run of label l
FirstRun(y, l, n) ==
    (CHOOSE p \in 1..Len(y) :
        /\ ConfirmedAt(y, p, n) /\ y[p] = l
        /\ \A q \in 1..(p - 1) : ~(ConfirmedAt(y, q, n) /\ y[q] = l)) - 1
\* a start marker and its stop marker
MarkerPairs ==
    {<<classes["Narrowband Start"], classes["Narrowband Stop"]>>,
     <<classes["Wideband Start"], classes["Wideband Stop"]>>}
IsBatch == self # None /\ op = "classificate_recordings"

\* C6: a recording whose confirmed labels are exactly a start marker followed
\* by its stop marker gets the coarse category of the start label, Start =
\* index of the first confirmed run of the start label and Stop = index of the
\* first confirmed run of the stop label.
C6_BatchSingleAnomaly ==
    IsBatch =>
        \A i \in 1..Len(batch_y) : \A m \in MarkerPairs :
            LET y == batch_y[i]
                n == self.n_confirmations
            IN  (/\ ConfirmedLabels(y, n) = {m[1], m[2]}
                 /\ FirstRun(y, m[1], n) < FirstRun(y, m[2], n))
                =>
                (/\ ret.kind = "return"
                 /\ ret.val[i] =
                      <<[Class |-> ClassName(class_map[m[1]]),
                         Start |-> PyInt(FirstRun(y, m[1], n)),
                         Stop |-> PyInt(FirstRun(y, m[2], n))]>>)

\* C7: a recording with three or more distinct confirmed labels, or with two
\* of different coarse categories (two that are not a start marker and its
\* stop marker, the case of C6), gets category Clean with Start and Stop
\* None; the call does not raise.
C7_BatchAmbiguityFallback ==
    IsBatch =>
        \A i \in 1..Len(batch_y) :
            LET labs == ConfirmedLabels(batch_y[i], self.n_confirmations)
            IN  (\/ Cardinality(labs) >= 3
                 \/ /\ Cardinality(labs) = 2
                    /\ \E a \in labs, b \in labs : class_map[a] # class_map[b]
                    /\ \A m \in MarkerPairs : labs # {m[1], m[2]})
                =>
                (/\ ret.kind = "return"
                 /\ ret.val[i] =
                      <<[Class |-> ClassName(class_map[Clean]),
                         Start |-> PyNone, Stop |-> PyNone]>>)

\* C8: the call returns one result per recording, in input order, and the
\* result at index i is the one the call returns for recording i alone.
C8_PerRecordingIndependence ==
    IsBatch =>
        /\ ret.kind = "return"
        /\ Len(ret.val) = Len(batch_y)
        /\ \A i \in 1..Len(batch_y) :
              LET alone == ClassificateResult(self, <<batch_y[i]>>)
              IN  alone.kind = "return" /\ ret.val[i] = alone.val[1]

\* C9: classificate_recordings leaves every field of the engine as it was.
C9_BatchLeavesEngine ==
    [][op' = "classificate_recordings" => self' = self]_vars

\* a batch call that raised on an engine that is ready and has confirmed a
\* class
C9_Witness ==
    /\ self # None
    /\ op = "classificate_recordings"
    /\ self.ready
    /\ self.prediction # Clean
    /\ self.buffer_index # 0
    /\ ret.kind = "raise"

\* C10: the construction raises for every n_shifts other than 1 and creates
\* no engine; with n_shifts = 1 it succeeds.
C10_ConstructionGuard ==
    op = "init" =>
        IF ctor.n_shifts = 1
        THEN self # None /\ ret = NoReturn
        ELSE self = None /\ ret = [kind |-> "raise", val |-> "AssertionError"]

\* a construction refused for n_shifts = 2
C10_Witness ==
    /\ op = "init"
    /\ ctor.n_shifts = 2
    /\ self = None
    /\ ret.kind = "raise"

\* C11: a call whose block has not exactly nfft samples raises a
\* size-mismatch error, and no sample of that block is stored in the buffer.
C11_MalformedBlockRejected ==
    (IsCall /\ Len(block) # self.nfft) =>
        /\ ret = [kind |-> "raise", val |-> "ValueError"]
        /\ \A i \in 1..Len(self.buffer), j \in 1..Len(block) :
               self.buffer[i] # block[j]

\* the call (0, 1, ...) since construction or reset whose block slot j
\* (0-based) holds after k calls, for j < k
HeldCall(j, k, n) == (k - 1) - ((k - 1 - j) % n)
\* the samples of the n blocks before call k, oldest first
RecentBlocks(k, n, nfft) == [i \in 1..(n * nfft) |-> (k - n) * nfft + i]

\* C12: after k calls since construction or reset buffer_index = k mod
\* num_intervals, slot j holds the block of the latest call written at j
\* (every call wrote its block into the slot at the pre-call buffer_index and
\* nothing else) and is unwritten if there was none, so for k >= num_intervals
\* the buffer holds exactly the num_intervals most recent blocks.
C12_RingBuffer ==
    self # None =>
        LET n == self.num_intervals
            k == ncalls
        IN  /\ self.buffer_index = k % n
            /\ Len(self.buffer) = n * self.nfft
            /\ \A j \in 0..(n - 1), i \in 1..self.nfft :
                   self.buffer[j * self.nfft + i] =
                      IF j < k THEN HeldCall(j, k, n) * self.nfft + i
                      ELSE Uninit
            /\ k >= n =>
                   {self.buffer[i] : i \in 1..Len(self.buffer)} =
                      {RecentBlocks(k, n, self.nfft)[i] : i \in 1..(n * self.nfft)}

\* an engine of 3 intervals after 5 calls: slots 0 and 1 were overwritten
C12_Witness ==
    /\ IsCall
    /\ self.num_intervals = 3
    /\ ncalls = 5
    /\ self.buffer_index = 2
    /\ self.buffer[1] = 3 * self.nfft + 1

\* C13: on every ready call the samples handed to the feature extraction
\* are exactly the nfft * num_intervals samples of the num_intervals most
\* recent blocks, oldest block first, none duplicated or omitted.
C13_WindowIsRecentBlocks ==
    (IsCall /\ predict_called) =>
        window = RecentBlocks(ncalls, self.num_intervals, self.nfft)

\* the step is a get_current_prediction call
CallStep == op' = "get_current_prediction" /\ ncalls' = ncalls + 1
\* the call of the step asked the classifier and confirms its latest label
ConfirmingStep ==
    /\ CallStep
    /\ predict_called'
    /\ Latest' # Clean
    /\ TailAllEqualLatest'
\* the call of the step asked the classifier and its non-Clean latest label
\* is not the candidate
CandidateChangingStep ==
    /\ CallStep
    /\ predict_called'
    /\ Latest' # Clean
    /\ Latest' # self.possible_prediction

\* C14: a ready call whose latest raw label is non-Clean and whose last
\* n_confirmations raw labels all equal it makes that label the confirmed
\* class, sets intervals_since_last_prediction to the call's final
\* intervals_since_current_prediction (0 if the candidate changed in the
\* call, else the previous value plus one) and returns the label's category
\* with that counter times nfft.
C14_PromotionStep ==
    [][ConfirmingStep =>
          /\ self'.prediction = Latest'
          /\ self'.intervals_since_current_prediction =
                 IF self.possible_prediction # Latest' THEN 0
                 ELSE self.intervals_since_current_prediction + 1
          /\ self'.intervals_since_last_prediction =
                 self'.intervals_since_current_prediction
          /\ ret' = [kind |-> "return",
                     val |-> <<class_map[Latest'],
                               self'.intervals_since_current_prediction
                                  * self'.nfft>>]]_vars

\* a promotion of a candidate that is one call old
C14_Witness ==
    /\ IsCall
    /\ predict_called
    /\ Latest # Clean
    /\ TailAllEqualLatest
    /\ self.n_confirmations = 2
    /\ self.prediction = Latest
    /\ self.prediction # prediction_before
    /\ self.intervals_since_last_prediction = 1
    /\ ret.val[2] = self.nfft

\* C15: intervals_since_current_prediction is 0 after construction and reset,
\* every call adds one to it, except that a ready call whose non-Clean latest
\* label differs from the candidate sets it to 0 and makes that label the
\* candidate; the candidate changes in no other call.
C15_CandidateTracking ==
    [][/\ op' \in {"init", "reset"} /\ self' # None =>
             self'.intervals_since_current_prediction = 0
       /\ CallStep =>
             /\ self'.intervals_since_current_prediction =
                    IF CandidateChangingStep THEN 0
                    ELSE self.intervals_since_current_prediction + 1
             /\ CandidateChangingStep => self'.possible_prediction = Latest'
             /\ (self'.possible_prediction # self.possible_prediction)
                    <=> CandidateChangingStep]_vars

\* a candidate that changed two calls ago and was not confirmed
C15_Witness ==
    /\ IsCall
    /\ predict_called
    /\ self.possible_prediction # Clean
    /\ self.possible_prediction # self.prediction
    /\ self.intervals_since_current_prediction = 2
    /\ self.intervals_since_last_prediction > 2

\* C16 as stated: intervals_since_last_prediction counts the calls since the
\* confirmed class last changed value: a call that changes the confirmed class
\* leaves it 0, every other call adds one to it.
C16_DurationSinceClassChanged ==
    [][CallStep =>
          self'.intervals_since_last_prediction =
             IF self'.prediction # self.prediction THEN 0
             ELSE self.intervals_since_last_prediction + 1]_vars

\* C16: a confirming call sets intervals_since_last_prediction to the age of
\* the candidate, whether or not the confirmed class changes value; every
\* other call adds one to it.
C16_DurationFollowsCandidate ==
    [][CallStep =>
          self'.intervals_since_last_prediction =
             IF ConfirmingStep
             THEN self'.intervals_since_current_prediction
             ELSE self.intervals_since_last_prediction + 1]_vars

\* the class already confirmed is confirmed again after another candidate
\* came in between: the hold duration restarts at 0
C16_Witness ==
    /\ IsCall
    /\ predict_called
    /\ Latest # Clean
    /\ TailAllEqualLatest
    /\ self.prediction = prediction_before
    /\ self.intervals_since_last_prediction = 0

\* the call of the step leaves the confirmed class and the candidate alone
CleanStep == CallStep /\ (~predict_called' \/ Latest' = Clean)
\* the buffer of the step differs at most in the slot at buffer_index
OnlySlotWritten ==
    \A i \in 1..Len(self.buffer) :
        (i <= self.buffer_index * self.nfft
           \/ i > (self.buffer_index + 1) * self.nfft)
        => self'.buffer[i] = self.buffer[i]

\* C17 as stated: a not-ready call and a ready call whose latest label is
\* Clean change nothing of the engine but the two counters (plus one each),
\* the written buffer slot, buffer_index and ready.
C17_CleanFrameWithoutLabels ==
    [][CleanStep =>
          /\ self' = [self EXCEPT
                        !.intervals_since_last_prediction = @ + 1,
                        !.intervals_since_current_prediction = @ + 1,
                        !.buffer = self'.buffer,
                        !.buffer_index = self'.buffer_index,
                        !.ready = self'.ready]
          /\ OnlySlotWritten]_vars

\* C17: a not-ready call and a ready call whose latest label is Clean leave
\* the confirmed class and the candidate unchanged; they change the two
\* counters (plus one each), the written buffer slot, buffer_index, ready
\* and, when the call is ready, the raw label array.
C17_CleanFrame ==
    [][CleanStep =>
          /\ self' = [self EXCEPT
                        !.intervals_since_last_prediction = @ + 1,
                        !.intervals_since_current_prediction = @ + 1,
                        !.buffer = self'.buffer,
                        !.buffer_index = self'.buffer_index,
                        !.ready = self'.ready,
                        !.predictions = self'.predictions]
          /\ OnlySlotWritten
          /\ ~predict_called' => self'.predictions = self.predictions]_vars

\* a ready call with a Clean latest label after a class was confirmed, the
\* labels before the latest one still those of the class
C17_Witness ==
    /\ IsCall
    /\ predict_called
    /\ Latest = Clean
    /\ self.prediction # Clean
    /\ self.prediction = prediction_before
    /\ self.predictions[1] = self.prediction
    /\ self.intervals_since_last_prediction > 0

\* the mask the batch loop builds for the labels y from the mask of a label
\* test, with the engine's n_confirmations
BatchMask(first, y) == MaskLoop(first, y, 1, self.n_confirmations - 1)
\* position p (1-based) of y heads n equal labels
HeadsRun(y, p, n) ==
    /\ p + n - 1 <= Len(y)
    /\ \A k \in 1..(n - 1) : y[p + k] = y[p]

\* C18: for every recording's labels y of length M >= n_confirmations - 1 the
\* mask of the shift-and-compare loop has length M - (n_confirmations - 1) and
\* is true at p exactly when y[p] is non-Clean and heads n_confirmations equal
\* labels, the start and stop masks are the same for one label, and the mask
\* selects labels of y: the selection raises no index error.
C18_BatchMask ==
    IsBatch =>
        /\ \A r \in 1..Len(batch_y) :
              LET y == batch_y[r]
                  n == self.n_confirmations
                  key == BatchMask(NonCleanMask(y), y)
              IN  Len(y) >= n - 1 =>
                    /\ Len(key) = Len(y) - (n - 1)
                    /\ \A p \in 1..Len(key) :
                          key[p] <=> (y[p] # Clean /\ HeadsRun(y, p, n))
                    /\ \A l \in Labels :
                          LET m == BatchMask(EqualMask(y, l), y)
                          IN  /\ Len(m) = Len(key)
                              /\ \A p \in 1..Len(m) :
                                    m[p] <=> (y[p] = l /\ HeadsRun(y, p, n))
        /\ ret # [kind |-> "raise", val |-> "IndexError"]

\* every sample of the first n slots of the buffer of s was written
SlotsWritten(s, n) == \A i \in 1..(n * s.nfft) : s.buffer[i] # Uninit
\* ready does not go back to false in the step unless the step is a reset
ReadyStays ==
    (self # None /\ self.ready /\ op' # "reset") => self'.ready

\* C19 as stated: whenever ready is true every slot of the buffer has been
\* written since construction or the last reset, and ready goes from true to
\* false only in a reset.
C19_ReadyMeansAllWritten ==
    [][/\ (self' # None /\ self'.ready) =>
             SlotsWritten(self', self'.num_intervals)
       /\ ReadyStays]_vars

\* C19: whenever the classifier is asked every slot of the buffer has been
\* written since construction or the last reset; whenever ready is true every
\* slot but the last has been written, and the last one too unless the call
\* that set ready raised at the write and no call succeeded since; ready goes
\* from true to false only in a reset.
C19_NoUnwrittenHistoryClassified ==
    [][/\ predict_called' /\ op' = "get_current_prediction" =>
             SlotsWritten(self', self'.num_intervals)
       /\ (self' # None /\ self'.ready) =>
             /\ SlotsWritten(self', self'.num_intervals - 1)
             /\ \/ SlotsWritten(self', self'.num_intervals)
                \/ /\ self'.buffer_index = self'.num_intervals - 1
                   /\ ret' = [kind |-> "raise", val |-> "ValueError"]
       /\ ReadyStays]_vars

\* the call at the last slot raised at the write: ready is set, the slot is
\* not written
C19_Witness ==
    /\ IsCall
    /\ self.ready
    /\ self.num_intervals = 3
    /\ ret = [kind |-> "raise", val |-> "ValueError"]
    /\ SlotsWritten(self, 2)
    /\ ~SlotsWritten(self, 3)

\* C20: in every state of a constructed engine
\* intervals_since_last_prediction >= intervals_since_current_prediction >= 0.
C20_DurationAtLeastCandidateAge ==
    self # None =>
        /\ self.intervals_since_current_prediction >= 0
        /\ self.intervals_since_last_prediction
              >= self.intervals_since_current_prediction

\* a confirmed class held for two calls while another candidate is one call
\* old
C20_Witness ==
    /\ IsCall
    /\ predict_called
    /\ self.prediction # Clean
    /\ self.possible_prediction # self.prediction
    /\ self.intervals_since_current_prediction = 1
    /\ self.intervals_since_last_prediction = 2
====
